---- MODULE Spec2Model ----
(***************************************************************************)
(* aws-oidc-sts: RSA key pair, JWKS, JWT and S3 bucket provisioning.       *)
(* The model follows the Go sources statement by statement: one action per *)
(* blocking call (filesystem, clock, key generation, AWS SDK call), with   *)
(* the outcome of every call that can fail chosen nondeterministically.    *)
(***************************************************************************)
EXTENDS Integers, Sequences, FiniteSets, TLC

(* ------------------------------ bounds -------------------------------- *)
\* number of distinct RSA moduli rsa.GenerateKey can draw / a user can supply
NumKeys == 2
\* number of command invocations made one after the other on the directory
MaxRuns == 2
\* number of seconds the wall clock advances during a behaviour
MaxTicks == 1

(* ----------------------- constants of the program --------------------- *)
RSAPrivateKeyFile == "private-key.pem"
RSAPublicKeyFile == "public-key.pem"
TLSDirName == "tls"
JWTIssuer == "https://example.com"
JWTAudience == "sts.amazonaws.com"
JWTSubject == "aws-oidc-sts"
JWKSFileName == "jwks.json"
JWKSUsage == "sig"
RS256 == "RS256"
TokenLifetime == 86400

FileNames == {RSAPrivateKeyFile, RSAPublicKeyFile, JWKSFileName}
KeyIds == 1..NumKeys
Procs == {"p1", "p2"}
Nil == [kind |-> "nil"]

(* --------------------------- key material ------------------------------ *)
\* rsa.GenerateKey(rand.Reader, bitSize): the key with modulus k
\* (the private exponent that belongs to modulus n is written 0 - n)
GenerateKey(k) == [kind |-> "rsa-private", n |-> k, d |-> 0 - k]
\* &privateKey.PublicKey
PublicKey(priv) == [kind |-> "rsa-public", n |-> priv.n]
\* a public key of a type x509.ParsePKIXPublicKey accepts and
\* x509.MarshalPKIXPublicKey rejects
DSAPublicKey == [kind |-> "dsa-public"]

\* x509.MarshalPKCS1PrivateKey
MarshalPKCS1PrivateKey(priv) == [der |-> "PKCS1", key |-> priv]
\* x509.MarshalPKIXPublicKey; err for an unsupported key type
MarshalPKIXPublicKey(pub) ==
  IF pub.kind = "rsa-public" THEN [der |-> "PKIX", key |-> pub]
  ELSE [der |-> "error"]
\* DER of a DSA SubjectPublicKeyInfo, as a user may have placed it on disk
DSAPublicKeyDER == [der |-> "PKIX", key |-> DSAPublicKey]
\* bytes that are no DER structure at all
JunkDER == [der |-> "junk"]
\* pem.EncodeToMemory(&pem.Block{Type, Bytes})
PemEncode(type, bytes) == [kind |-> "pem", type |-> type, bytes |-> bytes]
\* file content that holds no PEM block
Garbage == [kind |-> "garbage"]
\* what a write that failed midway leaves of data
Truncated(data) == [kind |-> "truncated", of |-> data]
\* pem.Decode: the first block, or Nil (the block type is not looked at)
PemDecode(data) == IF data.kind = "pem" THEN data ELSE Nil
\* x509.ParsePKCS1PrivateKey
ParsePKCS1PrivateKey(bytes) == IF bytes.der = "PKCS1" THEN bytes.key ELSE Nil
\* x509.ParsePKIXPublicKey
ParsePKIXPublicKey(bytes) == IF bytes.der = "PKIX" THEN bytes.key ELSE Nil

privateKeyPEM(k) ==
  PemEncode("RSA PRIVATE KEY", MarshalPKCS1PrivateKey(GenerateKey(k)))
publicKeyPEM(k) ==
  PemEncode("PUBLIC KEY", MarshalPKIXPublicKey(PublicKey(GenerateKey(k))))

(* ----------------------------- filesystem ----------------------------- *)
NoFile == [exists |-> FALSE]
File(data, t) == [exists |-> TRUE, data |-> data, mtime |-> t]
WriteOutcomes == {"ok", "open-failed", "short-write"}
\* os.WriteFile(name, data, perm): O_WRONLY|O_CREATE|O_TRUNC, Write, Close
WriteFile(f, name, data, t, outcome) ==
  CASE outcome = "ok" -> [f EXCEPT ![name] = File(data, t)]
    [] outcome = "short-write" -> [f EXCEPT ![name] = File(Truncated(data), t)]
    [] OTHER -> f
\* os.Stat(name) returns err == nil
Stat(f, name) == f[name].exists

VARIABLES
  tlsDir,    \* the tls subdirectory of the target directory exists
  fs,        \* the files of the tls subdirectory
  writes,    \* per process and file, the number of writes of the current
             \* invocation that touched the file
  now,       \* the wall clock, in seconds
  buckets,   \* the S3 buckets that exist
  netCalls,  \* per process, the AWS requests its current invocation issued
  runs,      \* number of command invocations started
  pc,        \* per process, the statement it is at
  cmd,       \* per process, the command it runs
  arg,       \* per process, bucketName and region
  loc,       \* per process, the local variables
  trace,     \* per process, the calls of the command that returned, in order
  ret,       \* per process, "running", "nil", "error" or "panic"
  err,       \* per process, the wrapped error, outermost message first
  exitCode,  \* per process, the exit status (-1 while running)
  snap,      \* per process, the world when the command was started (run)
             \* and when its current call was entered (call)
  prev       \* per process, its previous invocation: command, result and
             \* the world before and after it

vars == <<tlsDir, fs, writes, now, buckets, netCalls, runs, pc, cmd, arg, loc,
          trace, ret, err, exitCode, snap, prev>>


(* ------------------------- commands and calls ------------------------- *)
Commands == {"rsa-key-pair", "identity-provider", "main"}
BucketNames == {"", "my-oidc-bucket"}
Regions == {"", "us-east-1"}

\* (mutant) the bucket is created before the identity is queried
CreateIdentityProviderBucketFirst ==
  <<"CreateJSONWebKeySet", "CreateJWT", "NewAwsFromConfig",
    "CreateS3Bucket", "AwsClientIdentity">>
\* the calls CreateIdentityProvider makes, in the order of its statements
CreateIdentityProvider ==
  <<"CreateJSONWebKeySet", "CreateJWT", "NewAwsFromConfig",
    "AwsClientIdentity", "CreateS3Bucket">>
\* the calls of func main
main == <<"CreateRSAKeyPair", "CreateJSONWebKeySet", "CreateJWT">>
\* the calls of rsaKeyPairCmd.Run
rsaKeyPairCmd == <<"CreateRSAKeyPair">>
Calls(c) ==
  CASE c = "identity-provider" -> CreateIdentityProvider
    [] c = "main" -> main
    [] OTHER -> rsaKeyPairCmd

\* the first statement of each function
Entry(fn) ==
  CASE fn = "CreateRSAKeyPair" -> "rsa_mkdir"
    [] fn = "CreateJSONWebKeySet" -> "jwks_read_private"
    [] fn = "CreateJWT" -> "jwt_exp"
    [] fn = "NewAwsFromConfig" -> "aws_config"
    [] fn = "AwsClientIdentity" -> "aws_identity"
    [] OTHER -> "aws_bucket"

\* the message the caller wraps a failure of fn in
Wrap(c, fn) ==
  CASE c = "identity-provider" /\ fn = "CreateJSONWebKeySet" ->
         "failed to create JSON Web Key Set"
    [] c = "identity-provider" /\ fn = "CreateJWT" -> "failed to create JWT"
    [] c = "identity-provider" /\ fn = "NewAwsFromConfig" ->
         "failed to create AWS client"
    [] c = "identity-provider" /\ fn = "AwsClientIdentity" ->
         "failed to get AWS client identity"
    [] c = "identity-provider" /\ fn = "CreateS3Bucket" ->
         "failed to create S3 bucket"
    [] c = "main" /\ fn = "CreateRSAKeyPair" -> "Error creating RSA key pair"
    [] c = "main" /\ fn = "CreateJSONWebKeySet" ->
         "Error creating JSON Web Key Set"
    [] c = "main" /\ fn = "CreateJWT" -> "Error creating JWT"
    [] OTHER -> "Failed to create RSA key pair"

\* the process exit status: func main calls os.Exit(1) on an error; a cobra
\* Run function prints the error and returns, and Execute sees no error
ExitStatus(c, ok) == IF c = "main" /\ ~ok THEN 1 ELSE 0

\* what the caller does when call number i returned ok: the next call's
\* first statement, or "done" after the last call
AfterCall(c, i, ok) ==
  IF ok /\ i < Len(Calls(c)) THEN Entry(Calls(c)[i + 1]) ELSE "done"

InitLoc ==
  [skipGeneration |-> FALSE, privateKeyPEM |-> Nil, publicKeyPEM |-> Nil,
   privateKey |-> Nil, publicKey |-> Nil, jwkPrivateKey |-> Nil,
   jwkSetJSON |-> Nil, jwkKey |-> Nil,
   exp |-> 0, iat |-> 0, signedJWT |-> Nil, client |-> Nil]

\* the locals of the caller, which outlive the callee's
CallerLocals(l) ==
  [InitLoc EXCEPT !.jwkKey = l.jwkKey, !.signedJWT = l.signedJWT,
                  !.client = l.client]

\* what an invocation can change outside the process
World(d, f, b) == [tlsDir |-> d, fs |-> f, buckets |-> b]

\* the record of the invocation process p has finished
NoRun == [cmd |-> "none"]
Finished(p) ==
  [cmd |-> cmd[p], arg |-> arg[p], ret |-> ret[p], writes |-> writes[p],
   before |-> snap[p].run, after |-> World(tlsDir, fs, buckets)]

\* control stays inside the current function
Goto(p, label, l) ==
  /\ pc' = [pc EXCEPT ![p] = label]
  /\ loc' = [loc EXCEPT ![p] = l]
  /\ UNCHANGED <<runs, cmd, arg, trace, ret, err, exitCode, snap, prev>>

\* the current function returns to the command: `ok` without an error,
\* otherwise with the error `msgs`; l holds the locals as the callee left them
Return(p, ok, msgs, l) ==
  LET c == cmd[p]
      i == Len(trace[p]) + 1
      fn == Calls(c)[i]
      next == AfterCall(c, i, ok)
  IN /\ trace' = [trace EXCEPT ![p] = Append(@, [call |-> fn, ok |-> ok])]
     /\ pc' = [pc EXCEPT ![p] = next]
     /\ loc' = [loc EXCEPT ![p] = CallerLocals(l)]
     /\ IF next = "done"
        THEN /\ ret' = [ret EXCEPT ![p] = IF ok THEN "nil" ELSE "error"]
             /\ err' = [err EXCEPT ![p] =
                          IF ok THEN <<>> ELSE <<Wrap(c, fn)>> \o msgs]
             /\ exitCode' = [exitCode EXCEPT ![p] = ExitStatus(c, ok)]
             /\ snap' = snap
        ELSE /\ UNCHANGED <<ret, err, exitCode>>
             /\ snap' = [snap EXCEPT ![p].call = World(tlsDir', fs', buckets')]
     /\ UNCHANGED <<runs, cmd, arg, prev>>

(* ------------------------------- Init --------------------------------- *)
\* what a user may have left in the key files before the first invocation
InitialPrivate ==
  {NoFile, File(Garbage, 0), File(PemEncode("RSA PRIVATE KEY", JunkDER), 0)}
    \cup {File(privateKeyPEM(k), 0) : k \in KeyIds}
InitialPublic ==
  {NoFile, File(Garbage, 0), File(PemEncode("PUBLIC KEY", JunkDER), 0),
   File(PemEncode("PUBLIC KEY", DSAPublicKeyDER), 0)}
    \cup {File(publicKeyPEM(k), 0) : k \in KeyIds}
InitialJWKS == {NoFile, File(Garbage, 0)}

Init ==
  /\ tlsDir \in BOOLEAN
  /\ fs \in [FileNames -> InitialPrivate \cup InitialPublic \cup InitialJWKS]
  /\ fs[RSAPrivateKeyFile] \in InitialPrivate
  /\ fs[RSAPublicKeyFile] \in InitialPublic
  /\ fs[JWKSFileName] \in InitialJWKS
  /\ ~tlsDir => \A f \in FileNames : fs[f] = NoFile
  /\ writes = [p \in Procs |-> [f \in FileNames |-> 0]]
  /\ now = 1
  /\ buckets = {}
  /\ netCalls = [p \in Procs |-> <<>>]
  /\ runs = 0
  /\ pc = [p \in Procs |-> "idle"]
  /\ cmd = [p \in Procs |-> "rsa-key-pair"]
  /\ arg = [p \in Procs |-> [bucketName |-> "", region |-> ""]]
  /\ loc = [p \in Procs |-> InitLoc]
  /\ trace = [p \in Procs |-> <<>>]
  /\ ret = [p \in Procs |-> "nil"]
  /\ err = [p \in Procs |-> <<>>]
  /\ exitCode = [p \in Procs |-> 0]
  /\ snap = [p \in Procs |-> [run |-> World(tlsDir, fs, buckets),
                               call |-> World(tlsDir, fs, buckets)]]
  /\ prev = [p \in Procs |-> NoRun]

(* ------------------------ environment actions -------------------------- *)
\* the wall clock advances by one second
Tick ==
  /\ now < 1 + MaxTicks
  /\ now' = now + 1
  /\ UNCHANGED <<tlsDir, fs, writes, buckets, netCalls, runs, pc, cmd, arg,
                 loc, trace, ret, err, exitCode, snap, prev>>

\* a command is invoked; invocations follow one another (each process runs
\* to its end before the next command starts)
Start(p) ==
  /\ runs < MaxRuns
  /\ \A q \in Procs : pc[q] \in {"idle", "done"}
  /\ \E c \in Commands, b \in BucketNames, r \in Regions :
       /\ c # "identity-provider" => b = "" /\ r = ""
       /\ cmd' = [cmd EXCEPT ![p] = c]
       /\ arg' = [arg EXCEPT ![p] = [bucketName |-> b, region |-> r]]
       /\ pc' = [pc EXCEPT ![p] = Entry(Calls(c)[1])]
  /\ runs' = runs + 1
  /\ loc' = [loc EXCEPT ![p] = InitLoc]
  /\ trace' = [trace EXCEPT ![p] = <<>>]
  /\ ret' = [ret EXCEPT ![p] = "running"]
  /\ err' = [err EXCEPT ![p] = <<>>]
  /\ exitCode' = [exitCode EXCEPT ![p] = -1]
  /\ snap' = [snap EXCEPT ![p] = [run |-> World(tlsDir, fs, buckets),
                                  call |-> World(tlsDir, fs, buckets)]]
  /\ prev' = [prev EXCEPT ![p] = IF pc[p] = "done" THEN Finished(p) ELSE @]
  /\ writes' = [writes EXCEPT ![p] = [f \in FileNames |-> 0]]
  /\ netCalls' = [netCalls EXCEPT ![p] = <<>>]
  /\ UNCHANGED <<tlsDir, fs, now, buckets>>

(* --------------------------- CreateRSAKeyPair -------------------------- *)
\* os.MkdirAll(RSAKeyDir, 0755): nil when the directory is there already
RsaMkdirAll(p) ==
  /\ pc[p] = "rsa_mkdir"
  /\ UNCHANGED <<fs, writes, now, buckets, netCalls>>
  /\ \E created \in BOOLEAN :
       /\ tlsDir => created
       /\ tlsDir' = (tlsDir \/ created)
       /\ IF created
          THEN Goto(p, "rsa_stat_private", loc[p])
          ELSE Return(p, FALSE, <<"failed to create directory for RSA keys">>,
                      loc[p])

\* os.Stat(privateKeyFile)
RsaStatPrivate(p) ==
  /\ pc[p] = "rsa_stat_private"
  /\ UNCHANGED <<tlsDir, fs, writes, now, buckets, netCalls>>
  /\ Goto(p, "rsa_stat_public",
          [loc[p] EXCEPT !.skipGeneration = Stat(fs, RSAPrivateKeyFile)])

\* (mutant) generation is skipped only when both key files exist
RsaStatPublicBothRequired(p) ==
  /\ pc[p] = "rsa_stat_public"
  /\ UNCHANGED <<tlsDir, fs, writes, now, buckets, netCalls>>
  /\ LET skip == loc[p].skipGeneration /\ Stat(fs, RSAPublicKeyFile)
         l == [loc[p] EXCEPT !.skipGeneration = skip]
     IN IF skip THEN Return(p, TRUE, <<>>, l) ELSE Goto(p, "rsa_generate", l)

\* os.Stat(publicKeyFile), then `if skipGeneration { return nil }`
RsaStatPublic(p) ==
  /\ pc[p] = "rsa_stat_public"
  /\ UNCHANGED <<tlsDir, fs, writes, now, buckets, netCalls>>
  /\ LET skip == loc[p].skipGeneration \/ Stat(fs, RSAPublicKeyFile)
         l == [loc[p] EXCEPT !.skipGeneration = skip]
     IN IF skip THEN Return(p, TRUE, <<>>, l) ELSE Goto(p, "rsa_generate", l)

\* rsa.GenerateKey and the two PEM encodings
RsaGenerate(p) ==
  /\ pc[p] = "rsa_generate"
  /\ UNCHANGED <<tlsDir, fs, writes, now, buckets, netCalls>>
  /\ \E k \in KeyIds, generated \in BOOLEAN :
       LET privateKey == GenerateKey(k)
           publicKeyBytes == MarshalPKIXPublicKey(PublicKey(privateKey))
       IN CASE ~generated ->
                 Return(p, FALSE, <<"failed to generate RSA private key">>,
                        loc[p])
            [] generated /\ publicKeyBytes.der = "error" ->
                 Return(p, FALSE, <<"failed to marshal public key">>, loc[p])
            [] OTHER ->
                 Goto(p, "rsa_write_private",
                      [loc[p] EXCEPT
                         !.privateKeyPEM =
                            PemEncode("RSA PRIVATE KEY",
                                      MarshalPKCS1PrivateKey(privateKey)),
                         !.publicKeyPEM =
                            PemEncode("PUBLIC KEY", publicKeyBytes)])

\* os.WriteFile(privateKeyFile, privateKeyPEM, 0600)
RsaWritePrivate(p) ==
  /\ pc[p] = "rsa_write_private"
  /\ UNCHANGED <<tlsDir, now, buckets, netCalls>>
  /\ \E o \in WriteOutcomes :
       /\ fs' = WriteFile(fs, RSAPrivateKeyFile, loc[p].privateKeyPEM, now, o)
       /\ writes' = [writes EXCEPT ![p][RSAPrivateKeyFile] =
                       IF o = "open-failed" THEN @ ELSE @ + 1]
       /\ IF o = "ok"
          THEN Goto(p, "rsa_write_public", loc[p])
          ELSE Return(p, FALSE, <<"failed to write private key to file">>,
                      loc[p])

\* (mutant) the public key is written to privateKeyFile
RsaWritePublicWrongFile(p) ==
  /\ pc[p] = "rsa_write_public"
  /\ UNCHANGED <<tlsDir, now, buckets, netCalls>>
  /\ \E o \in WriteOutcomes :
       /\ fs' = WriteFile(fs, RSAPrivateKeyFile, loc[p].publicKeyPEM, now, o)
       /\ writes' = [writes EXCEPT ![p][RSAPrivateKeyFile] =
                       IF o = "open-failed" THEN @ ELSE @ + 1]
       /\ IF o = "ok"
          THEN Return(p, TRUE, <<>>, loc[p])
          ELSE Return(p, FALSE, <<"failed to write public key to file">>,
                      loc[p])

\* os.WriteFile(publicKeyFile, publicKeyPEM, 0644)
RsaWritePublic(p) ==
  /\ pc[p] = "rsa_write_public"
  /\ UNCHANGED <<tlsDir, now, buckets, netCalls>>
  /\ \E o \in WriteOutcomes :
       /\ fs' = WriteFile(fs, RSAPublicKeyFile, loc[p].publicKeyPEM, now, o)
       /\ writes' = [writes EXCEPT ![p][RSAPublicKeyFile] =
                       IF o = "open-failed" THEN @ ELSE @ + 1]
       /\ IF o = "ok"
          THEN Return(p, TRUE, <<>>, loc[p])
          ELSE Return(p, FALSE, <<"failed to write public key to file">>,
                      loc[p])


(* ------------------------- JWK, JWKS and JWT --------------------------- *)
\* hex.EncodeToString(sha256(bytes)), taken to be free of collisions
SHA256Hex(bytes) == [kind |-> "sha256hex", of |-> bytes]
\* (mutant) the digest is taken of the PEM text, not of the DER bytes
keyIDFromPEM(publicKey) ==
  SHA256Hex(PemEncode("PUBLIC KEY", MarshalPKIXPublicKey(publicKey)))
\* (mutant) the time of the computation enters the digest
keyIDFromPublicKeyAndTime(publicKey) ==
  SHA256Hex([der |-> "PKIX", key |-> publicKey, at |-> now])
\* keyIDFromPublicKey, for a key x509.MarshalPKIXPublicKey accepts
keyIDFromPublicKey(publicKey) == SHA256Hex(MarshalPKIXPublicKey(publicKey))
\* jwk.Import(privateKey)
jwkImport(privateKey) ==
  [kty |-> "RSA", n |-> privateKey.n, d |-> privateKey.d, kid |-> Nil,
   use |-> "", alg |-> ""]
\* the three jwkPrivateKey.Set calls of CreateJSONWebKeySet
jwkPrivateKeyOf(privateKey, keyID) ==
  [jwkImport(privateKey) EXCEPT !.kid = keyID, !.use = JWKSUsage,
                                !.alg = RS256]
\* jwk.PublicKeyOf: every field but the private ones
PublicKeyOf(key) ==
  [kty |-> key.kty, n |-> key.n, kid |-> key.kid, use |-> key.use,
   alg |-> key.alg]
\* (mutant) the published key is built from the key parsed from disk
jwkSetJSONFromDisk(jwkPrivateKey, publicKey) ==
  [kind |-> "json",
   keys |-> <<[kty |-> "RSA", n |-> publicKey.n, kid |-> jwkPrivateKey.kid,
               use |-> jwkPrivateKey.use, alg |-> jwkPrivateKey.alg]>>]
\* (mutant) the private JWK itself is added to the set
jwkSetJSONWithPrivate(jwkPrivateKey, publicKey) ==
  [kind |-> "json", keys |-> <<jwkPrivateKey>>]
\* jwk.PublicKeyOf(jwkPrivateKey), jwkSet.AddKey(jwkPublicKey) on the new
\* set, then json.MarshalIndent; publicKey, parsed from disk, is in scope
\* and not used
jwkSetJSONOf(jwkPrivateKey, publicKey) ==
  [kind |-> "json", keys |-> <<PublicKeyOf(jwkPrivateKey)>>]
\* jwt.Sign(token, jwt.WithKey(jwa.RS256(), signingKey))
Sign(claims, signingKey) ==
  LET header == [alg |-> RS256, kid |-> signingKey.kid, typ |-> "JWT"]
  IN [header |-> header, claims |-> claims,
      signature |-> [d |-> signingKey.d, over |-> <<header, claims>>]]
\* RS256 verification of a compact token against a public JWK
Verify(jwt, key) ==
  /\ key.kty = "RSA"
  /\ jwt.header.alg = RS256
  /\ jwt.signature.over = <<jwt.header, jwt.claims>>
  /\ jwt.signature.d = 0 - key.n

\* a panic: the process dies inside the current call
Panic(p, msgs) ==
  /\ pc' = [pc EXCEPT ![p] = "done"]
  /\ ret' = [ret EXCEPT ![p] = "panic"]
  /\ err' = [err EXCEPT ![p] = msgs]
  /\ exitCode' = [exitCode EXCEPT ![p] = 2]
  /\ UNCHANGED <<runs, cmd, arg, loc, trace, snap, prev>>

(* ------------------------- CreateJSONWebKeySet ------------------------- *)
\* ParsePrivateKeyFromFile(filePath)
JwksParsePrivate(p) ==
  /\ pc[p] = "jwks_read_private"
  /\ UNCHANGED <<tlsDir, fs, writes, now, buckets, netCalls>>
  /\ \E readable \in BOOLEAN :
       LET file == fs[RSAPrivateKeyFile]
           block == PemDecode(file.data)
           privateKey == ParsePKCS1PrivateKey(block.bytes)
       IN CASE ~file.exists \/ ~readable ->
                 Return(p, FALSE, <<"failed to parse private key",
                                    "failed to read private key file">>,
                        loc[p])
            [] file.exists /\ readable /\ block = Nil ->
                 Return(p, FALSE,
                        <<"failed to parse private key",
                          "failed to decode PEM block containing private key">>,
                        loc[p])
            [] file.exists /\ readable /\ block # Nil /\ privateKey = Nil ->
                 Return(p, FALSE, <<"failed to parse private key",
                                    "failed to parse private key">>, loc[p])
            [] OTHER ->
                 Goto(p, "jwks_read_public",
                      [loc[p] EXCEPT !.privateKey = privateKey])

\* ParsePublicKeyFromFile(filePath)
JwksParsePublic(p) ==
  /\ pc[p] = "jwks_read_public"
  /\ UNCHANGED <<tlsDir, fs, writes, now, buckets, netCalls>>
  /\ \E readable \in BOOLEAN :
       LET file == fs[RSAPublicKeyFile]
           block == PemDecode(file.data)
           publicKey == ParsePKIXPublicKey(block.bytes)
       IN CASE ~file.exists \/ ~readable ->
                 Return(p, FALSE, <<"failed to parse private key",
                                    "failed to read public key file">>,
                        loc[p])
            [] file.exists /\ readable /\ block = Nil ->
                 Return(p, FALSE,
                        <<"failed to parse private key",
                          "failed to decode PEM block containing public key">>,
                        loc[p])
            [] file.exists /\ readable /\ block # Nil /\ publicKey = Nil ->
                 Return(p, FALSE, <<"failed to parse private key",
                                    "failed to parse public key">>, loc[p])
            [] OTHER ->
                 Goto(p, "jwks_assemble",
                      [loc[p] EXCEPT !.publicKey = publicKey])

\* (mutant) the output file is written before the error of json.MarshalIndent
\* is looked at
JwksAssembleWritesFirst(p) ==
  /\ pc[p] = "jwks_assemble"
  /\ UNCHANGED <<tlsDir, now, buckets, netCalls>>
  /\ \E imported \in BOOLEAN, marshalled \in BOOLEAN :
       LET keyID == keyIDFromPublicKey(loc[p].publicKey)
           jwkPrivateKey == jwkPrivateKeyOf(loc[p].privateKey, keyID)
       IN CASE MarshalPKIXPublicKey(loc[p].publicKey).der = "error" ->
                 /\ imported /\ marshalled
                 /\ UNCHANGED <<fs, writes>>
                 /\ Panic(p, <<"failed to marshal public key">>)
            [] MarshalPKIXPublicKey(loc[p].publicKey).der # "error"
                 /\ ~imported ->
                 /\ marshalled
                 /\ UNCHANGED <<fs, writes>>
                 /\ Return(p, FALSE,
                           <<"failed to import private key into JWK">>, loc[p])
            [] MarshalPKIXPublicKey(loc[p].publicKey).der # "error"
                 /\ imported /\ ~marshalled ->
                 /\ fs' = WriteFile(fs, JWKSFileName, Garbage, now, "ok")
                 /\ writes' = [writes EXCEPT ![p][JWKSFileName] = @ + 1]
                 /\ Return(p, FALSE, <<"failed to marshal JWK Set">>, loc[p])
            [] OTHER ->
                 /\ UNCHANGED <<fs, writes>>
                 /\ Goto(p, "jwks_write",
                         [loc[p] EXCEPT !.jwkPrivateKey = jwkPrivateKey,
                                        !.jwkSetJSON =
                                           jwkSetJSONOf(jwkPrivateKey,
                                                        loc[p].publicKey)])

\* keyIDFromPublicKey, jwk.Import, the Set calls, jwk.PublicKeyOf, AddKey and
\* json.MarshalIndent
JwksAssemble(p) ==
  /\ pc[p] = "jwks_assemble"
  /\ UNCHANGED <<tlsDir, fs, writes, now, buckets, netCalls>>
  /\ \E imported \in BOOLEAN, marshalled \in BOOLEAN :
       LET keyID == keyIDFromPublicKey(loc[p].publicKey)
           jwkPrivateKey == jwkPrivateKeyOf(loc[p].privateKey, keyID)
       IN CASE MarshalPKIXPublicKey(loc[p].publicKey).der = "error" ->
                 /\ imported /\ marshalled
                 /\ Panic(p, <<"failed to marshal public key">>)
            [] MarshalPKIXPublicKey(loc[p].publicKey).der # "error"
                 /\ ~imported ->
                 /\ marshalled
                 /\ Return(p, FALSE,
                           <<"failed to import private key into JWK">>, loc[p])
            [] MarshalPKIXPublicKey(loc[p].publicKey).der # "error"
                 /\ imported /\ ~marshalled ->
                 Return(p, FALSE, <<"failed to marshal JWK Set">>, loc[p])
            [] OTHER ->
                 Goto(p, "jwks_write",
                      [loc[p] EXCEPT !.jwkPrivateKey = jwkPrivateKey,
                                     !.jwkSetJSON =
                                        jwkSetJSONOf(jwkPrivateKey,
                                                     loc[p].publicKey)])

\* (mutant) jwkFilePath is built from RSAPublicKeyFile
JwksWriteToPublicKeyFile(p) ==
  /\ pc[p] = "jwks_write"
  /\ UNCHANGED <<tlsDir, now, buckets, netCalls>>
  /\ \E o \in WriteOutcomes :
       /\ fs' = WriteFile(fs, RSAPublicKeyFile, loc[p].jwkSetJSON, now, o)
       /\ writes' = [writes EXCEPT ![p][RSAPublicKeyFile] =
                       IF o = "open-failed" THEN @ ELSE @ + 1]
       /\ IF o = "ok"
          THEN Return(p, TRUE, <<>>,
                      [loc[p] EXCEPT !.jwkKey = loc[p].jwkPrivateKey])
          ELSE Return(p, FALSE, <<"failed to write JWK Set to file">>, loc[p])

\* os.WriteFile(jwkFilePath, jwkSetJSON, 0644) and `return jwkPrivateKey, nil`
JwksWrite(p) ==
  /\ pc[p] = "jwks_write"
  /\ UNCHANGED <<tlsDir, now, buckets, netCalls>>
  /\ \E o \in WriteOutcomes :
       /\ fs' = WriteFile(fs, JWKSFileName, loc[p].jwkSetJSON, now, o)
       /\ writes' = [writes EXCEPT ![p][JWKSFileName] =
                       IF o = "open-failed" THEN @ ELSE @ + 1]
       /\ IF o = "ok"
          THEN Return(p, TRUE, <<>>,
                      [loc[p] EXCEPT !.jwkKey = loc[p].jwkPrivateKey])
          ELSE Return(p, FALSE, <<"failed to write JWK Set to file">>, loc[p])

(* ------------------------------ CreateJWT ------------------------------ *)
\* Claim("exp", time.Now().Add(time.Hour*24).Unix())
JwtExp(p) ==
  /\ pc[p] = "jwt_exp"
  /\ UNCHANGED <<tlsDir, fs, writes, now, buckets, netCalls>>
  /\ Goto(p, "jwt_iat", [loc[p] EXCEPT !.exp = now + TokenLifetime])

\* Claim("iat", time.Now().Unix())
JwtIat(p) ==
  /\ pc[p] = "jwt_iat"
  /\ UNCHANGED <<tlsDir, fs, writes, now, buckets, netCalls>>
  /\ Goto(p, "jwt_sign", [loc[p] EXCEPT !.iat = now])

\* Build() and jwt.Sign
JwtSign(p) ==
  /\ pc[p] = "jwt_sign"
  /\ UNCHANGED <<tlsDir, fs, writes, now, buckets, netCalls>>
  /\ \E signed \in BOOLEAN :
       LET token == [iss |-> JWTIssuer, aud |-> JWTAudience,
                     sub |-> JWTSubject, exp |-> loc[p].exp,
                     iat |-> loc[p].iat]
       IN IF signed
          THEN Return(p, TRUE, <<>>,
                      [loc[p] EXCEPT !.signedJWT = Sign(token, loc[p].jwkKey)])
          ELSE Return(p, FALSE, <<"failed to sign JWT token">>, loc[p])

(* ----------------------------- AWS client ------------------------------ *)
\* an AWS request as the SDK client is handed it
Request(op, bucket, region) ==
  [op |-> op, bucket |-> bucket, region |-> region]

\* awsProvider.NewAwsFromConfig(region)
AwsConfig(p) ==
  /\ pc[p] = "aws_config"
  /\ UNCHANGED <<tlsDir, fs, writes, now, buckets, netCalls>>
  /\ \E loaded \in BOOLEAN :
       IF loaded
       THEN Return(p, TRUE, <<>>,
                   [loc[p] EXCEPT !.client = [region |-> arg[p].region]])
       ELSE Return(p, FALSE, <<"failed to create AWS client",
                               "unable to load SDK config">>, loc[p])

\* client.AwsClientIdentity: sts GetCallerIdentity
AwsIdentity(p) ==
  /\ pc[p] = "aws_identity"
  /\ UNCHANGED <<tlsDir, fs, writes, now, buckets>>
  /\ netCalls' = [netCalls EXCEPT ![p] =
                    Append(@, Request("GetCallerIdentity", "",
                                      loc[p].client.region))]
  /\ \E answered \in BOOLEAN : Return(p, answered, <<>>, loc[p])

\* whether S3 can accept a CreateBucket request for this name
BucketCreatable(name, existing) == name # "" /\ name \notin existing

\* (mutant) the error of CreateS3Bucket is dropped
AwsBucketUnchecked(p) ==
  /\ pc[p] = "aws_bucket"
  /\ UNCHANGED <<tlsDir, fs, writes, now>>
  /\ netCalls' = [netCalls EXCEPT ![p] =
                    Append(@, Request("CreateBucket", arg[p].bucketName,
                                      arg[p].region))]
  /\ \E created \in BOOLEAN :
       /\ created => BucketCreatable(arg[p].bucketName, buckets)
       /\ buckets' = IF created THEN buckets \cup {arg[p].bucketName}
                     ELSE buckets
       /\ Return(p, TRUE, <<>>, loc[p])

\* (mutant) the request carries no location constraint
AwsBucketNoLocation(p) ==
  /\ pc[p] = "aws_bucket"
  /\ UNCHANGED <<tlsDir, fs, writes, now>>
  /\ netCalls' = [netCalls EXCEPT ![p] =
                    Append(@, Request("CreateBucket", arg[p].bucketName, ""))]
  /\ \E created \in BOOLEAN :
       /\ created => BucketCreatable(arg[p].bucketName, buckets)
       /\ buckets' = IF created THEN buckets \cup {arg[p].bucketName}
                     ELSE buckets
       /\ Return(p, created, <<>>, loc[p])

\* (mutant) a bucket that exists already is accepted as created
AwsBucketIdempotent(p) ==
  /\ pc[p] = "aws_bucket"
  /\ UNCHANGED <<tlsDir, fs, writes, now>>
  /\ netCalls' = [netCalls EXCEPT ![p] =
                    Append(@, Request("CreateBucket", arg[p].bucketName,
                                      arg[p].region))]
  /\ \E created \in BOOLEAN :
       /\ created => BucketCreatable(arg[p].bucketName, buckets)
       /\ buckets' = IF created THEN buckets \cup {arg[p].bucketName}
                     ELSE buckets
       /\ Return(p, created \/ arg[p].bucketName \in buckets, <<>>, loc[p])

\* client.CreateS3Bucket: s3 CreateBucket with the LocationConstraint
AwsBucket(p) ==
  /\ pc[p] = "aws_bucket"
  /\ UNCHANGED <<tlsDir, fs, writes, now>>
  /\ netCalls' = [netCalls EXCEPT ![p] =
                    Append(@, Request("CreateBucket", arg[p].bucketName,
                                      arg[p].region))]
  /\ \E created \in BOOLEAN :
       /\ created => BucketCreatable(arg[p].bucketName, buckets)
       /\ buckets' = IF created THEN buckets \cup {arg[p].bucketName}
                     ELSE buckets
       /\ Return(p, created, <<>>, loc[p])

(* ------------------------------ behaviours ----------------------------- *)
Step(p) ==
  \/ Start(p)
  \/ RsaMkdirAll(p) \/ RsaStatPrivate(p) \/ RsaStatPublic(p)
  \/ RsaGenerate(p) \/ RsaWritePrivate(p) \/ RsaWritePublic(p)
  \/ JwksParsePrivate(p) \/ JwksParsePublic(p) \/ JwksAssemble(p)
  \/ JwksWrite(p)
  \/ JwtExp(p) \/ JwtIat(p) \/ JwtSign(p)
  \/ AwsConfig(p) \/ AwsIdentity(p) \/ AwsBucket(p)

\* one process at a time: the commands are run one after the other
Next == Tick \/ Step("p1")

Spec == Init /\ [][Next]_vars

(* ------------------- two concurrent CreateRSAKeyPair ------------------- *)
\* one statement of CreateRSAKeyPair
CreateRSAKeyPair(p) ==
  \/ RsaMkdirAll(p) \/ RsaStatPrivate(p) \/ RsaStatPublic(p)
  \/ RsaGenerate(p) \/ RsaWritePrivate(p) \/ RsaWritePublic(p)

\* two rsa-key-pair processes have been started on an empty target directory
ConcurrentInit ==
  /\ tlsDir = FALSE
  /\ fs = [f \in FileNames |-> NoFile]
  /\ writes = [p \in Procs |-> [f \in FileNames |-> 0]]
  /\ now = 1
  /\ buckets = {}
  /\ netCalls = [p \in Procs |-> <<>>]
  /\ runs = Cardinality(Procs)
  /\ pc = [p \in Procs |-> Entry(rsaKeyPairCmd[1])]
  /\ cmd = [p \in Procs |-> "rsa-key-pair"]
  /\ arg = [p \in Procs |-> [bucketName |-> "", region |-> ""]]
  /\ loc = [p \in Procs |-> InitLoc]
  /\ trace = [p \in Procs |-> <<>>]
  /\ ret = [p \in Procs |-> "running"]
  /\ err = [p \in Procs |-> <<>>]
  /\ exitCode = [p \in Procs |-> -1]
  /\ snap = [p \in Procs |-> [run |-> World(tlsDir, fs, buckets),
                               call |-> World(tlsDir, fs, buckets)]]
  /\ prev = [p \in Procs |-> NoRun]

\* the processes share the directory and nothing else; no lock orders their
\* statements
ConcurrentNext == \E p \in Procs : CreateRSAKeyPair(p)

SpecConcurrent == ConcurrentInit /\ [][ConcurrentNext]_vars


(* ===================== properties of the behaviours ==================== *)
\* the statements of each function
Statements(fn) ==
  CASE fn = "CreateRSAKeyPair" ->
         {"rsa_mkdir", "rsa_stat_private", "rsa_stat_public", "rsa_generate",
          "rsa_write_private", "rsa_write_public"}
    [] fn = "CreateJSONWebKeySet" ->
         {"jwks_read_private", "jwks_read_public", "jwks_assemble",
          "jwks_write"}
    [] fn = "CreateJWT" -> {"jwt_exp", "jwt_iat", "jwt_sign"}
    [] fn = "NewAwsFromConfig" -> {"aws_config"}
    [] fn = "AwsClientIdentity" -> {"aws_identity"}
    [] OTHER -> {"aws_bucket"}

\* process p is in, or has finished, an invocation of command c
Running(p, c) == cmd[p] = c /\ pc[p] # "idle"
CallNames(p) == [i \in 1..Len(trace[p]) |-> trace[p][i].call]
AllOk(p, n) == \A i \in 1..n : trace[p][i].ok
IsPrefix(s, t) == Len(s) <= Len(t) /\ \A i \in 1..Len(s) : s[i] = t[i]

\* the calls of p's invocation follow `order`: the calls that returned are a
\* prefix of it, each but the last returned without an error, and the call
\* in progress is the next of the order, entered after all before it
\* returned without an error
InOrder(p, order) ==
  /\ IsPrefix(CallNames(p), order)
  /\ AllOk(p, Len(trace[p]) - 1)
  /\ pc[p] # "done" =>
       /\ AllOk(p, Len(trace[p]))
       /\ Len(trace[p]) < Len(order)
       /\ pc[p] \in Statements(order[Len(trace[p]) + 1])
  /\ pc[p] = "done" /\ ret[p] = "nil" =>
       CallNames(p) = order /\ AllOk(p, Len(trace[p]))

NoKeyFiles(w) ==
  ~w.fs[RSAPrivateKeyFile].exists /\ ~w.fs[RSAPublicKeyFile].exists
\* the two key files hold the two halves of one generated key pair
MatchingPair(f) ==
  /\ f[RSAPrivateKeyFile].exists /\ f[RSAPublicKeyFile].exists
  /\ \E k \in KeyIds : /\ f[RSAPrivateKeyFile].data = privateKeyPEM(k)
                       /\ f[RSAPublicKeyFile].data = publicKeyPEM(k)

(* ------------------------------- C1 ----------------------------------- *)
\* C1 as stated: CreateIdentityProvider runs ensure key pair, build JWKS,
\* sign JWT, resolve cloud client, verify identity, create bucket in this
\* order, each after all earlier ones succeeded, so both key files exist
\* whenever build-JWKS runs.
C1_EnsureKeyPairFirst ==
  \A p \in Procs :
    Running(p, "identity-provider") =>
      /\ InOrder(p, <<"CreateRSAKeyPair", "CreateJSONWebKeySet", "CreateJWT",
                      "NewAwsFromConfig", "AwsClientIdentity",
                      "CreateS3Bucket">>)
      /\ pc[p] \in Statements("CreateJSONWebKeySet") =>
           Stat(fs, RSAPrivateKeyFile) /\ Stat(fs, RSAPublicKeyFile)

\* C1 (amended): CreateIdentityProvider runs build JWKS, sign JWT, resolve
\* cloud client, verify identity, create bucket in this order, and no call
\* starts before every earlier one returned without an error.  Ensure key
\* pair is no step of it: it never touches the two key files, and started
\* on a directory in which a key file is missing it fails in build JWKS.
C1_WorkflowOrder ==
  \A p \in Procs :
    Running(p, "identity-provider") =>
      /\ InOrder(p, <<"CreateJSONWebKeySet", "CreateJWT", "NewAwsFromConfig",
                      "AwsClientIdentity", "CreateS3Bucket">>)
      /\ pc[p] \notin Statements("CreateRSAKeyPair")
      /\ fs[RSAPrivateKeyFile] = snap[p].run.fs[RSAPrivateKeyFile]
      /\ fs[RSAPublicKeyFile] = snap[p].run.fs[RSAPublicKeyFile]
      /\ (/\ ~(Stat(snap[p].run.fs, RSAPrivateKeyFile)
                /\ Stat(snap[p].run.fs, RSAPublicKeyFile))
          /\ Len(trace[p]) >= 1) =>
           /\ trace[p] = <<[call |-> "CreateJSONWebKeySet", ok |-> FALSE]>>
           /\ ret[p] = "error"

\* a whole workflow ran: five calls, the last one the bucket creation
C1_Witness ==
  \E p \in Procs :
    /\ Running(p, "identity-provider") /\ pc[p] = "done"
    /\ Len(trace[p]) = 5 /\ trace[p][5].call = "CreateS3Bucket"

(* ------------------------------- C2 ----------------------------------- *)
\* C2 as stated: a CreateIdentityProvider invocation with an empty bucket
\* name or an empty region issues no AWS request and does not return nil.
C2_EmptyInputNoNetwork ==
  \A p \in Procs :
    (/\ Running(p, "identity-provider")
     /\ (arg[p].bucketName = "" \/ arg[p].region = "")) =>
      /\ netCalls[p] = <<>>
      /\ pc[p] = "done" => ret[p] # "nil"

(* ------------------------------- C3 ----------------------------------- *)
\* the number of AWS requests the calls that returned have issued
RequestsOf(p) ==
  Cardinality({i \in 1..Len(trace[p]) :
                 trace[p][i].call \in {"AwsClientIdentity", "CreateS3Bucket"}})

\* C3 as stated: when call k of CreateIdentityProvider fails, the workflow
\* returns an error, no later call has run, and directory, files and
\* buckets are exactly as calls 1..k-1 left them.
C3_FailureLeavesEarlierEffectsOnly ==
  \A p \in Procs :
    (/\ Running(p, "identity-provider")
     /\ pc[p] = "done" /\ ret[p] # "nil") =>
      /\ ret[p] = "error"
      /\ InOrder(p, <<"CreateJSONWebKeySet", "CreateJWT", "NewAwsFromConfig",
                      "AwsClientIdentity", "CreateS3Bucket">>)
      /\ Len(trace[p]) >= 1 /\ ~trace[p][Len(trace[p])].ok
      /\ Len(netCalls[p]) = RequestsOf(p)
      /\ World(tlsDir, fs, buckets) = snap[p].call

(* ------------------------------- C4 ----------------------------------- *)
\* C4: CreateIdentityProvider returns nil only if each of its five calls
\* returned without an error, the last of them the CreateBucket request,
\* which created the bucket; after a failed call it never returns nil.
C4_SuccessOnlyIfAllSucceeded ==
  \A p \in Procs :
    Running(p, "identity-provider") =>
      /\ (\E i \in 1..Len(trace[p]) : ~trace[p][i].ok) => ret[p] # "nil"
      /\ ret[p] = "nil" =>
           /\ pc[p] = "done"
           /\ CallNames(p) = <<"CreateJSONWebKeySet", "CreateJWT",
                               "NewAwsFromConfig", "AwsClientIdentity",
                               "CreateS3Bucket">>
           /\ AllOk(p, 5)
           /\ netCalls[p][Len(netCalls[p])] =
                [op |-> "CreateBucket", bucket |-> arg[p].bucketName,
                 region |-> arg[p].region]
           /\ arg[p].bucketName \in buckets
           /\ arg[p].bucketName \notin snap[p].call.buckets

\* a workflow that returned nil, its bucket created by its second request
C4_Witness ==
  \E p \in Procs :
    /\ Running(p, "identity-provider") /\ ret[p] = "nil"
    /\ Len(netCalls[p]) = 2 /\ arg[p].bucketName \in buckets

SecondCall(p) ==
  /\ pc[p] # "idle" /\ cmd[p] = "rsa-key-pair"
  /\ prev[p].cmd = "rsa-key-pair"
  /\ prev[p].ret = "nil"
  /\ NoKeyFiles(prev[p].before)

\* C6: a CreateRSAKeyPair that returns nil on a directory without key files
\* has written each key file once, the two halves of one pair; a second
\* call right after it writes nothing and returns nil, so the files (content
\* and write time) stay as the first call left them.
C6_SecondCallWritesNothing ==
  \A p \in Procs :
    SecondCall(p) =>
      /\ MatchingPair(prev[p].after.fs)
      /\ prev[p].writes[RSAPrivateKeyFile] = 1
      /\ prev[p].writes[RSAPublicKeyFile] = 1
      /\ fs = prev[p].after.fs
      /\ \A f \in FileNames : writes[p][f] = 0
      /\ pc[p] \notin {"rsa_generate", "rsa_write_private", "rsa_write_public"}
      /\ pc[p] = "done" => ret[p] = "nil"

\* the second call returned, a second or more after the files were written
C6_Witness ==
  \E p \in Procs :
    /\ SecondCall(p) /\ pc[p] = "done"
    /\ fs[RSAPrivateKeyFile].mtime < now

(* ------------------------------- C7 ----------------------------------- *)
\* C7 as stated: whenever CreateRSAKeyPair has returned (nil or an error)
\* on a directory that held neither key file, either both files exist and
\* hold the two halves of one key pair, or neither exists.
C7_KeyFilesWrittenTogether ==
  \A p \in Procs :
    (/\ cmd[p] = "rsa-key-pair" /\ pc[p] = "done"
     /\ NoKeyFiles(snap[p].run)) =>
      MatchingPair(fs) \/ NoKeyFiles(World(tlsDir, fs, buckets))

(* ------------------------------- C8 ----------------------------------- *)
\* the single key of jwks.json, and the RSA public key it publishes
JwksKey == fs[JWKSFileName].data.keys[1]
PublishedKey == [kind |-> "rsa-public", n |-> JwksKey.n]
\* the keys the two key files hold
KeyInPrivateFile ==
  ParsePKCS1PrivateKey(PemDecode(fs[RSAPrivateKeyFile].data).bytes)
KeyInPublicFile ==
  ParsePKIXPublicKey(PemDecode(fs[RSAPublicKeyFile].data).bytes)
\* CreateJSONWebKeySet has just returned its handle to p
JustBuilt(p) == pc[p] = "jwt_exp"

\* C8 as stated: after a successful CreateJSONWebKeySet the kid of the key
\* in jwks.json, and of the handle, is the hex SHA-256 of the PKIX DER of
\* the public key that entry publishes, the public half of the key in
\* private-key.pem, whatever the two key files hold.
C8_KidOfPublishedKey ==
  \A p \in Procs :
    JustBuilt(p) =>
      /\ JwksKey.kid = SHA256Hex(MarshalPKIXPublicKey(PublishedKey))
      /\ loc[p].jwkKey.kid = JwksKey.kid
      /\ PublishedKey = PublicKey(KeyInPrivateFile)

\* C8 (amended): after a successful CreateJSONWebKeySet the kid of the key
\* in jwks.json, and of the handle, is the hex SHA-256 of the PKIX DER of
\* the key parsed from public-key.pem, while the published key is the
\* public half of the key in private-key.pem; the kid is the digest of the
\* published key when the two files hold a matching pair.
C8_KidOfPublicKeyFile ==
  \A p \in Procs :
    JustBuilt(p) =>
      /\ JwksKey.kid = SHA256Hex(MarshalPKIXPublicKey(KeyInPublicFile))
      /\ loc[p].jwkKey.kid = JwksKey.kid
      /\ PublishedKey = PublicKey(KeyInPrivateFile)
      /\ KeyInPublicFile = PublicKey(KeyInPrivateFile) =>
           JwksKey.kid = SHA256Hex(MarshalPKIXPublicKey(PublishedKey))

\* a build over a matching pair: the kid is the digest of the published key
C8_Witness ==
  \E p \in Procs :
    /\ JustBuilt(p)
    /\ KeyInPublicFile = PublicKey(KeyInPrivateFile)
    /\ JwksKey.kid = SHA256Hex(MarshalPKIXPublicKey(PublishedKey))

(* ------------------------------- C9 ----------------------------------- *)
\* C9: the key a successful CreateJSONWebKeySet writes to jwks.json is the
\* public half of the handle it returns, and a token CreateJWT signs with
\* that handle verifies against the key of jwks.json and names its kid.
C9_JWKSRoundTrip ==
  \A p \in Procs :
    /\ JustBuilt(p) =>
         /\ JwksKey.n = loc[p].jwkKey.n
         /\ JwksKey.kid = loc[p].jwkKey.kid
         /\ loc[p].jwkKey.d = 0 - JwksKey.n
    /\ loc[p].signedJWT # Nil =>
         /\ Verify(loc[p].signedJWT, JwksKey)
         /\ loc[p].signedJWT.header.kid = JwksKey.kid

\* a token signed over key files that hold halves of different pairs
C9_Witness ==
  \E p \in Procs :
    /\ loc[p].signedJWT # Nil
    /\ KeyInPublicFile # PublicKey(KeyInPrivateFile)

(* ------------------------------- C10 ---------------------------------- *)
\* what CreateJSONWebKeySet wrote, or began to write, to jwks.json
WrittenJWKS ==
  IF fs[JWKSFileName].data.kind = "truncated"
  THEN fs[JWKSFileName].data.of ELSE fs[JWKSFileName].data

\* C10: a jwks.json written by CreateJSONWebKeySet holds exactly one key,
\* a public key (no private exponent) with use "sig" and alg "RS256", and
\* a write that failed midway left a part of such a document; the private
\* exponent is in the returned handle only.
C10_OnlyPublicKeyInJWKS ==
  /\ (fs[JWKSFileName].exists /\ fs[JWKSFileName].data # Garbage) =>
       /\ WrittenJWKS.kind = "json"
       /\ Len(WrittenJWKS.keys) = 1
       /\ DOMAIN WrittenJWKS.keys[1] = {"kty", "n", "kid", "use", "alg"}
       /\ WrittenJWKS.keys[1].kty = "RSA"
       /\ WrittenJWKS.keys[1].use = "sig"
       /\ WrittenJWKS.keys[1].alg = "RS256"
  /\ \A p \in Procs : loc[p].jwkKey # Nil => "d" \in DOMAIN loc[p].jwkKey

\* a complete jwks.json on disk, its writer holding the handle
C10_Witness ==
  \E p \in Procs :
    /\ fs[JWKSFileName].exists /\ fs[JWKSFileName].data.kind = "json"
    /\ loc[p].jwkKey # Nil /\ pc[p] = "done"

(* ------------------------------- C11 ---------------------------------- *)
\* C11 as stated: in every token CreateJWT signs, exp minus iat is exactly
\* 86400 seconds, also when the clock moves on to the next second between
\* the two clock reads of the call.
C11_ExpMinusIat ==
  \A p \in Procs :
    loc[p].signedJWT # Nil =>
      loc[p].signedJWT.claims.exp - loc[p].signedJWT.claims.iat = TokenLifetime

(* ------------------------------- C12 ---------------------------------- *)
\* C12 as stated: whenever a command ends because one of its calls returned
\* an error, the wrapped error is printed and the exit status is not 0, for
\* the cobra commands rsa-key-pair and identity-provider as for func main.
C12_FailureExitsNonZero ==
  \A p \in Procs :
    (pc[p] = "done" /\ ret[p] = "error") =>
      /\ err[p] # <<>>
      /\ err[p][1] = Wrap(cmd[p], trace[p][Len(trace[p])].call)
      /\ exitCode[p] # 0

(* ------------------------------- C13 ---------------------------------- *)
\* the places of the CreateBucket requests among p's requests
CreateBucketRequests(p) ==
  {i \in 1..Len(netCalls[p]) : netCalls[p][i].op = "CreateBucket"}

\* p runs the workflow again, with the same inputs, after a run that
\* returned nil
SecondWorkflow(p) ==
  /\ Running(p, "identity-provider")
  /\ prev[p].cmd = "identity-provider" /\ prev[p].ret = "nil"
  /\ prev[p].arg = arg[p]

\* C13: a workflow invocation issues exactly one CreateBucket request once it
\* reaches the step and none before, no request other than the identity
\* query precedes it (no existence check), a failed request is not repeated,
\* and when a bucket of the name exists already the workflow returns the
\* wrapped error of the request.
C13_BucketCreationNotIdempotent ==
  \A p \in Procs :
    Running(p, "identity-provider") =>
      /\ \A i \in 1..Len(netCalls[p]) :
           netCalls[p][i].op \in {"GetCallerIdentity", "CreateBucket"}
      /\ Cardinality(CreateBucketRequests(p)) =
           (IF Len(trace[p]) = 5 THEN 1 ELSE 0)
      /\ Len(trace[p]) = 5 =>
           /\ pc[p] = "done"
           /\ Len(netCalls[p]) = 2
           /\ netCalls[p][1].op = "GetCallerIdentity"
           /\ netCalls[p][2].op = "CreateBucket"
           /\ arg[p].bucketName \in snap[p].call.buckets =>
                /\ ret[p] = "error"
                /\ err[p] = <<"failed to create S3 bucket">>
                /\ buckets = snap[p].call.buckets
      /\ (SecondWorkflow(p) /\ pc[p] = "done") => ret[p] = "error"

\* the whole workflow ran a second time with the inputs of a first run that
\* returned nil, and failed in its bucket creation
C13_Witness ==
  \E p \in Procs :
    /\ SecondWorkflow(p) /\ pc[p] = "done"
    /\ Len(trace[p]) = 5 /\ ret[p] = "error"

(* ------------------------------- C14 ---------------------------------- *)
\* the last call of p's command was CreateJSONWebKeySet and returned an error
BuildFailed(p) ==
  /\ pc[p] = "done" /\ ret[p] = "error"
  /\ trace[p][Len(trace[p])].call = "CreateJSONWebKeySet"
\* the error is the one of os.WriteFile
WriteFailed(p) == err[p][2] = "failed to write JWK Set to file"
\* CreateJSONWebKeySet returned its handle to p in this invocation
Built(p) ==
  \E i \in 1..Len(trace[p]) :
    trace[p][i] = [call |-> "CreateJSONWebKeySet", ok |-> TRUE]

\* C14: a CreateJSONWebKeySet that returns an error of reading, decoding,
\* parsing, importing or marshalling leaves jwks.json as it was when the
\* call was entered; the file is written at most once per call, and only
\* after the key set was marshalled; a call that returns the handle has
\* replaced the content by the marshalled set of that handle's public key.
C14_FailedBuildLeavesJWKS ==
  \A p \in Procs :
    (pc[p] # "idle" /\ cmd[p] \in {"identity-provider", "main"}) =>
      /\ writes[p][JWKSFileName] <= 1
      /\ pc[p] \in Statements("CreateJSONWebKeySet") =>
           /\ writes[p][JWKSFileName] = 0
           /\ fs[JWKSFileName] = snap[p].call.fs[JWKSFileName]
      /\ pc[p] = "jwks_write" => loc[p].jwkSetJSON.kind = "json"
      /\ (BuildFailed(p) /\ ~WriteFailed(p)) =>
           /\ writes[p][JWKSFileName] = 0
           /\ fs[JWKSFileName] = snap[p].call.fs[JWKSFileName]
      /\ Built(p) =>
           /\ writes[p][JWKSFileName] = 1
           /\ fs[JWKSFileName].exists
           /\ fs[JWKSFileName].data =
                [kind |-> "json", keys |-> <<PublicKeyOf(loc[p].jwkKey)>>]

\* a build failed before its write and the earlier jwks.json is still there
C14_Witness ==
  \E p \in Procs :
    /\ cmd[p] \in {"identity-provider", "main"}
    /\ BuildFailed(p) /\ ~WriteFailed(p)
    /\ fs[JWKSFileName].exists

(* ------------------------------- C15 ---------------------------------- *)
\* p's previous invocation wrote a whole jwks.json, p's current one has
\* built again, and the two key files are as the previous invocation left
\* them
BuiltTwice(p) ==
  /\ pc[p] # "idle" /\ Built(p)
  /\ prev[p].cmd \in {"identity-provider", "main"}
  /\ prev[p].writes[JWKSFileName] = 1
  /\ prev[p].after.fs[JWKSFileName].data.kind = "json"
  /\ fs[RSAPrivateKeyFile] = prev[p].after.fs[RSAPrivateKeyFile]
  /\ fs[RSAPublicKeyFile] = prev[p].after.fs[RSAPublicKeyFile]

C16_OnePairWins ==
  (\A p \in Procs : cmd[p] = "rsa-key-pair" /\ pc[p] = "done" /\ ret[p] = "nil")
    => MatchingPair(fs)

(* ------------------------------- C17 ---------------------------------- *)
\* C17: CreateIdentityProvider issues its CreateBucket request only after
\* NewAwsFromConfig returned a client for the caller's region and the
\* GetCallerIdentity request, sent through that client, returned without an
\* error; the CreateBucket request is the second request of the run, names
\* the caller's bucket and carries the caller's region as its location
\* constraint.
C17_IdentityBeforeBucket ==
  \A p \in Procs :
    Running(p, "identity-provider") =>
      /\ (pc[p] = "aws_bucket" \/ CreateBucketRequests(p) # {}) =>
           /\ Len(trace[p]) >= 4
           /\ trace[p][3] = [call |-> "NewAwsFromConfig", ok |-> TRUE]
           /\ trace[p][4] = [call |-> "AwsClientIdentity", ok |-> TRUE]
           /\ loc[p].client = [region |-> arg[p].region]
           /\ netCalls[p][1] =
                [op |-> "GetCallerIdentity", bucket |-> "",
                 region |-> arg[p].region]
      /\ \A i \in CreateBucketRequests(p) :
           /\ i = 2
           /\ netCalls[p][i] =
                [op |-> "CreateBucket", bucket |-> arg[p].bucketName,
                 region |-> arg[p].region]

\* a CreateBucket request for a named bucket in a named region was issued
C17_Witness ==
  \E p \in Procs :
    /\ Running(p, "identity-provider")
    /\ CreateBucketRequests(p) = {2}
    /\ arg[p].bucketName # "" /\ arg[p].region # ""

(* ------------------------------- C18 ---------------------------------- *)
\* the call p is in, or the one its command ended in
CurrentCall(p) ==
  IF pc[p] = "done" /\ ret[p] # "panic"
  THEN trace[p][Len(trace[p])].call
  ELSE Calls(cmd[p])[Len(trace[p]) + 1]

\* C18: from its entry to its return CreateJSONWebKeySet leaves both key
\* files as they were (existence, content and write time), CreateJWT leaves
\* the whole directory as it was and hands its token back to the caller
\* only, and no run of the workflow, a second one after a first included,
\* changes a key file or writes one.
C18_KeyFilesUntouched ==
  \A p \in Procs :
    pc[p] # "idle" =>
      /\ CurrentCall(p) \in {"CreateJSONWebKeySet", "CreateJWT"} =>
           /\ fs[RSAPrivateKeyFile] = snap[p].call.fs[RSAPrivateKeyFile]
           /\ fs[RSAPublicKeyFile] = snap[p].call.fs[RSAPublicKeyFile]
           /\ tlsDir = snap[p].call.tlsDir
      /\ CurrentCall(p) = "CreateJWT" => fs = snap[p].call.fs
      /\ cmd[p] = "identity-provider" =>
           /\ fs[RSAPrivateKeyFile] = snap[p].run.fs[RSAPrivateKeyFile]
           /\ fs[RSAPublicKeyFile] = snap[p].run.fs[RSAPublicKeyFile]
           /\ writes[p][RSAPrivateKeyFile] = 0
           /\ writes[p][RSAPublicKeyFile] = 0
           /\ prev[p].cmd = "identity-provider" =>
                /\ prev[p].after.fs[RSAPrivateKeyFile] =
                     prev[p].before.fs[RSAPrivateKeyFile]
                /\ prev[p].after.fs[RSAPublicKeyFile] =
                     prev[p].before.fs[RSAPublicKeyFile]
                /\ fs[RSAPrivateKeyFile] = prev[p].before.fs[RSAPrivateKeyFile]
                /\ fs[RSAPublicKeyFile] = prev[p].before.fs[RSAPublicKeyFile]

\* a token was signed and returned, and jwks.json was written later than
\* the key files
C18_Witness ==
  \E p \in Procs :
    /\ pc[p] = "done" /\ loc[p].signedJWT # Nil
    /\ CurrentCall(p) = "CreateJWT"
    /\ fs[JWKSFileName].exists
    /\ fs[JWKSFileName].mtime > fs[RSAPrivateKeyFile].mtime
    /\ fs[JWKSFileName].mtime > fs[RSAPublicKeyFile].mtime

(* ------------------------------- C19 ---------------------------------- *)
\* C19 as stated: once CreateRSAKeyPair has returned nil, private-key.pem
\* and public-key.pem both exist, so the CreateJSONWebKeySet that func main
\* calls next finds both files.
C19_SuccessMeansBothExist ==
  \A p \in Procs :
    (/\ pc[p] # "idle" /\ cmd[p] \in {"rsa-key-pair", "main"}
     /\ Len(trace[p]) >= 1
     /\ trace[p][1] = [call |-> "CreateRSAKeyPair", ok |-> TRUE]) =>
      Stat(fs, RSAPrivateKeyFile) /\ Stat(fs, RSAPublicKeyFile)

====
